---- MODULE Spec2Model ----
(***************************************************************************)
(* Model of the data-fetch and normalisation pipeline of bot.js: the       *)
(* searchCache Map with its read-time freshness test and periodic sweep,   *)
(* fetchPlayerStats / fetchGuildInfo as asynchronous tasks that suspend    *)
(* at each axios.get, and combinePlayerData with its derived metrics.      *)
(***************************************************************************)
EXTENDS Integers, Sequences, FiniteSets, TLC

VARIABLES now, ticks, calls, nextSweep, searchCache, task, lastDone, lastWrite,
          combineArgs, combined, commands, coreCalls

vars == <<now, ticks, calls, nextSweep, searchCache, task, lastDone, lastWrite,
          combineArgs, combined, commands, coreCalls>>

\* the input and the output of an isolated combinePlayerData call, and the
\* chat commands received with the core calls their handlers made
pureVars == <<combineArgs, combined, commands, coreCalls>>

(***************************************************************************)
(* Bounds of the model.                                                    *)
(***************************************************************************)
\* number of clock advances explored in one behaviour
MaxTicks == 3

\* number of fetch invocations explored in one behaviour
MaxCalls == 2

\* largest per-mode statistic (games, wins, kills, deaths) given to an isolated
\* combinePlayerData call
MaxStat == 40

(***************************************************************************)
(* Program constants.                                                      *)
(***************************************************************************)
CACHE_DURATION == 5 * 60 * 1000

SWEEP_INTERVAL == 10 * 60 * 1000

\* the concurrent handler invocations (independent asynchronous tasks)
Tasks == {1, 2}

\* amounts by which Date.now() advances between two steps (milliseconds)
Deltas == {1000, CACHE_DURATION}

Uids == {"1"}

GuildIds == {"1"}

Regions == {"IND"}

(***************************************************************************)
(* JavaScript values.  An object is a function from property names to      *)
(* values; a property that is absent is not in its DOMAIN.                 *)
(***************************************************************************)
EmptyObj == [f \in {} |-> 0]

JsNull == [jsNull |-> TRUE]

Has(o, f) == f \in DOMAIN o

\* o[f] || 0 for a property that is an integer or absent
NumOrZero(o, f) == IF Has(o, f) /\ o[f] # 0 THEN o[f] ELSE 0

\* o[f] || dflt for a property that is a string or absent
StrOr(o, f, dflt) == IF Has(o, f) /\ o[f] # "" THEN o[f] ELSE dflt

\* o[f] || {} for a property that is an object or absent
ObjOrEmpty(o, f) == IF Has(o, f) THEN o[f] ELSE EmptyObj

\* o.detailedStats?.[f] || 0
DetailOrZero(o, f) == IF Has(o, "detailedStats") THEN NumOrZero(o["detailedStats"], f) ELSE 0

(***************************************************************************)
(* JavaScript numbers.  The operands the program divides are integers; the *)
(* quotient is an IEEE-754 double: a sign and a 53-bit significand m (most *)
(* significant bit first) scaled by 2^e.  The significand is produced by   *)
(* binary long division and rounded to nearest, ties to even.              *)
(***************************************************************************)
SignificandBits == 53

Bit == {0, 1}

\* binary digits of a natural number, most significant first (<<>> for 0)
BitsOf[n \in Nat] == IF n = 0 THEN <<>> ELSE BitsOf[n \div 2] \o <<n % 2>>

BitsToNat[b \in Seq(Bit)] ==
    IF b = <<>> THEN 0 ELSE 2 * BitsToNat[SubSeq(b, 1, Len(b) - 1)] + b[Len(b)]

\* b + 1 on a bit string; the result is one bit longer when b is all ones
IncBits[b \in Seq(Bit)] ==
    IF b = <<>> THEN <<1>>
    ELSE IF b[Len(b)] = 0 THEN SubSeq(b, 1, Len(b) - 1) \o <<1>>
    ELSE IncBits[SubSeq(b, 1, Len(b) - 1)] \o <<0>>

\* x = <<b, c, carry>>: b * c + carry for a small natural c, on bit strings
MulBits[x \in Seq(Bit) \X Nat \X Nat] ==
    LET b == x[1]
        t == b[Len(b)] * x[2] + x[3]
    IN  IF b = <<>> THEN BitsOf[x[3]]
        ELSE MulBits[<<SubSeq(b, 1, Len(b) - 1), x[2], t \div 2>>] \o <<t % 2>>

\* round a bit string b (value b * 2^e, guard bit g, sticky bit st below it)
\* to nearest, ties to even
RoundNearestEven(b, e, g, st) ==
    IF g = 1 /\ (st \/ b[Len(b)] = 1)
    THEN LET up == IncBits[b]
         IN  IF Len(up) > Len(b)
             THEN [m |-> SubSeq(up, 1, Len(b)), e |-> e + 1]
             ELSE [m |-> up, e |-> e]
    ELSE [m |-> b, e |-> e]

\* x = <<r, d, sig, e>>: long division, r the running remainder (r < d), sig
\* the significant quotient bits so far, 2^e the weight of the last bit produced
DivideBits[x \in Nat \X Nat \X Seq(Bit) \X Int] ==
    LET r == x[1]
        d == x[2]
        sig == x[3]
        bit == (2 * r) \div d
    IN  IF Len(sig) = SignificandBits
        THEN RoundNearestEven(sig, x[4], bit, ((2 * r) % d) # 0)
        ELSE DivideBits[<<(2 * r) % d, d,
                          IF sig = <<>> /\ bit = 0 THEN <<>> ELSE sig \o <<bit>>,
                          x[4] - 1>>]

Abs(x) == IF x < 0 THEN -x ELSE x

Zero == [neg |-> FALSE, zero |-> TRUE, m |-> <<>>, e |-> 0]

\* the double a / b for integers a and b, b > 0
NumberDivide(a, b) ==
    IF a = 0 THEN Zero
    ELSE LET r == DivideBits[<<Abs(a) % b, b, BitsOf[Abs(a) \div b], 0>>]
         IN  [neg |-> a < 0, zero |-> FALSE, m |-> r.m, e |-> r.e]

\* the double x * c for a double x and a small natural c > 0
NumberMultiply(x, c) ==
    IF x.zero THEN x
    ELSE LET p == MulBits[<<x.m, c, 0>>]
             extra == Len(p) - SignificandBits
             r == IF extra <= 0 THEN [m |-> p, e |-> x.e]
                  ELSE RoundNearestEven(SubSeq(p, 1, SignificandBits), x.e + extra,
                                        p[SignificandBits + 1],
                                        \E i \in (SignificandBits + 2)..Len(p) : p[i] = 1)
         IN  [neg |-> x.neg, zero |-> FALSE, m |-> r.m, e |-> r.e]

(***************************************************************************)
(* Number.prototype.toString and Number.prototype.toFixed.                 *)
(***************************************************************************)
Digit(d) ==
    CASE d = 0 -> "0" [] d = 1 -> "1" [] d = 2 -> "2" [] d = 3 -> "3" [] d = 4 -> "4"
      [] d = 5 -> "5" [] d = 6 -> "6" [] d = 7 -> "7" [] d = 8 -> "8" [] d = 9 -> "9"

NatToString[n \in Nat] == IF n < 10 THEN Digit(n) ELSE NatToString[n \div 10] \o Digit(n % 10)

\* n.toString() for an integer n
IntToString(n) == IF n < 0 THEN "-" \o NatToString[-n] ELSE NatToString[n]

\* x = <<n, f>>: the last f decimal digits of n, with leading zeros
FractionDigits[x \in Nat \X Nat] ==
    IF x[2] = 0 THEN "" ELSE FractionDigits[<<x[1] \div 10, x[2] - 1>>] \o Digit(x[1] % 10)

Pow10(f) == IF f = 0 THEN 1 ELSE IF f = 1 THEN 10 ELSE 100

\* the integer n for which n / 10^f - x is as close to zero as possible, the
\* larger one when there are two: the integer part of x * 10^f taken exactly,
\* plus its first fractional bit
FixedDigits(x, f) ==
    IF x.zero THEN 0
    ELSE LET q == MulBits[<<x.m, Pow10(f), 0>>]
             cut == Len(q) + x.e
         IN  IF x.e >= 0 THEN BitsToNat[q] * (2 ^ x.e)
             ELSE IF cut < 0 THEN 0
             ELSE BitsToNat[SubSeq(q, 1, cut)] + q[cut + 1]

\* x.toFixed(f) for a double x, f in 0..2
toFixed(x, f) ==
    LET n == FixedDigits(x, f)
    IN  (IF x.neg THEN "-" ELSE "")
          \o NatToString[n \div Pow10(f)]
          \o (IF f = 0 THEN "" ELSE "." \o FractionDigits[<<n % Pow10(f), f>>])

(***************************************************************************)
(* combinePlayerData.                                                      *)
(***************************************************************************)
rankNames ==
    [c \in 211..220 |->
        CASE c = 220 -> "Grandmaster"
          [] c = 219 -> "Diamond I"
          [] c = 218 -> "Diamond II"
          [] c = 217 -> "Diamond III"
          [] c = 216 -> "Platinum I"
          [] c = 215 -> "Platinum II"
          [] c = 214 -> "Platinum III"
          [] c = 213 -> "Gold I"
          [] c = 212 -> "Gold II"
          [] c = 211 -> "Gold III"]

\* mutant: the win rate formatted with toFixed(2)
WinRate_twoDigits(totalWins, totalMatches) ==
    IF totalMatches > 0
    THEN toFixed(NumberMultiply(NumberDivide(totalWins, totalMatches), 100), 2)
    ELSE "0.0"

\* totalMatches > 0 ? ((totalWins / totalMatches) * 100).toFixed(1) : '0.0'
WinRate(totalWins, totalMatches) ==
    IF totalMatches > 0
    THEN toFixed(NumberMultiply(NumberDivide(totalWins, totalMatches), 100), 1)
    ELSE "0.0"

\* totalDeaths > 0 ? (totalKills / totalDeaths).toFixed(2) : totalKills.toString()
KdRatio(totalKills, totalDeaths) ==
    IF totalDeaths > 0
    THEN toFixed(NumberDivide(totalKills, totalDeaths), 2)
    ELSE IntToString(totalKills)

\* mutant: an unmapped code falls back to 'Unknown' like maxRank does
RankLabel_noCode(basicInfo) ==
    IF Has(basicInfo, "rank") /\ basicInfo["rank"] \in DOMAIN rankNames
    THEN rankNames[basicInfo["rank"]]
    ELSE "Rank Unknown"

\* rankNames[basicInfo.rank] || `Rank ${basicInfo.rank || 'Unknown'}`
RankLabel(basicInfo) ==
    IF Has(basicInfo, "rank") /\ basicInfo["rank"] \in DOMAIN rankNames
    THEN rankNames[basicInfo["rank"]]
    ELSE "Rank " \o (IF Has(basicInfo, "rank") /\ basicInfo["rank"] # 0
                     THEN IntToString(basicInfo["rank"])
                     ELSE "Unknown")

\* rankNames[basicInfo.maxRank] || 'Unknown'
MaxRankLabel(basicInfo) ==
    IF Has(basicInfo, "maxRank") /\ basicInfo["maxRank"] \in DOMAIN rankNames
    THEN rankNames[basicInfo["maxRank"]]
    ELSE "Unknown"

\* basicInfo.lastLoginAt ? new Date(parseInt(basicInfo.lastLoginAt) * 1000).toLocaleString()
\*                       : 'Unknown'
\* (the epoch seconds arrive as a number; the localised text is kept symbolic
\* in the epoch milliseconds it is rendered from)
LastLogin(basicInfo) ==
    IF Has(basicInfo, "lastLoginAt") /\ basicInfo["lastLoginAt"] # 0
    THEN "Date(" \o IntToString(basicInfo["lastLoginAt"] * 1000) \o ").toLocaleString()"
    ELSE "Unknown"

\* mutant: the level is counted up by the number of entries in the cache
combinePlayerData_cacheSized(accountData, statsData, uid, region) ==
    [nickname |-> StrOr(ObjOrEmpty(accountData, "basicInfo"), "nickname", "Unknown"),
     uid |-> uid,
     region |-> region,
     level |-> NumOrZero(ObjOrEmpty(accountData, "basicInfo"), "level")
                 + Cardinality(DOMAIN searchCache),
     soloStats |-> ObjOrEmpty(statsData, "soloStats"),
     quadStats |-> ObjOrEmpty(statsData, "quadStats")]

combinePlayerData(accountData, statsData, uid, region) ==
    LET basicInfo == ObjOrEmpty(accountData, "basicInfo")
        soloStats == ObjOrEmpty(statsData, "soloStats")
        quadStats == ObjOrEmpty(statsData, "quadStats")
        totalMatches == NumOrZero(soloStats, "gamesPlayed") + NumOrZero(quadStats, "gamesPlayed")
        totalWins == NumOrZero(soloStats, "wins") + NumOrZero(quadStats, "wins")
        totalKills == NumOrZero(soloStats, "kills") + NumOrZero(quadStats, "kills")
        totalDeaths == DetailOrZero(soloStats, "deaths") + DetailOrZero(quadStats, "deaths")
    IN  [nickname |-> StrOr(basicInfo, "nickname", "Unknown"),
         uid |-> StrOr(basicInfo, "accountId", uid),
         level |-> NumOrZero(basicInfo, "level"),
         region |-> StrOr(basicInfo, "region", region),
         likes |-> NumOrZero(basicInfo, "liked"),
         rank |-> RankLabel(basicInfo),
         rankingPoints |-> NumOrZero(basicInfo, "rankingPoints"),
         kdRatio |-> KdRatio(totalKills, totalDeaths),
         totalMatches |-> totalMatches,
         totalWins |-> totalWins,
         winRate |-> WinRate(totalWins, totalMatches),
         totalKills |-> totalKills,
         headshots |-> DetailOrZero(soloStats, "headshots") + DetailOrZero(quadStats, "headshots"),
         damage |-> DetailOrZero(soloStats, "damage") + DetailOrZero(quadStats, "damage"),
         maxRank |-> MaxRankLabel(basicInfo),
         badgeCount |-> NumOrZero(basicInfo, "badgeCnt"),
         clanInfo |-> IF Has(accountData, "clanBasicInfo") THEN accountData["clanBasicInfo"] ELSE JsNull,
         lastLogin |-> LastLogin(basicInfo),
         soloStats |-> soloStats,
         quadStats |-> quadStats]

(***************************************************************************)
(* The source registry and the upstream API.                               *)
(***************************************************************************)
statsSources ==
    [i \in 0..1 |->
        IF i = 0
        THEN [name |-> "Free FF API (Primary)", type |-> "uid",
              endpoints |-> {"account", "playerStats", "guildInfo"},
              reliability |-> 95, responseFormat |-> "json"]
        ELSE [name |-> "FF Community Stats", type |-> "both",
              endpoints |-> {},
              reliability |-> 88, responseFormat |-> "html"]]

\* const primarySource = statsSources[0]: the index the fetch operations use
primarySource == 0

AccountA ==
    [basicInfo |-> [nickname |-> "Alpha", accountId |-> "1", level |-> 75, region |-> "IND",
                    liked |-> 10, rank |-> 220, rankingPoints |-> 5000, maxRank |-> 220,
                    badgeCnt |-> 3, lastLoginAt |-> 1700],
     clanBasicInfo |-> [clanName |-> "Clan", clanLevel |-> 2, memberNum |-> 10]]

AccountB == [basicInfo |-> [nickname |-> "Beta", level |-> 76, rank |-> 999]]

StatsA ==
    [soloStats |-> [gamesPlayed |-> 60, wins |-> 23, kills |-> 100,
                    detailedStats |-> [deaths |-> 30, headshots |-> 12, damage |-> 9000]],
     quadStats |-> [gamesPlayed |-> 40, wins |-> 20, kills |-> 20,
                    detailedStats |-> [deaths |-> 10, headshots |-> 3, damage |-> 500]]]

GuildA ==
    [clanId |-> "1", clanName |-> "Guild", clanLevel |-> 3, memberNum |-> 20,
     capacity |-> 50, region |-> "IND", createAt |-> 1600, captainId |-> "9"]

\* the body by which the upstream signals an application-level error
ErrorPayload == [error |-> TRUE, message |-> "uid not found"]

\* axios.get either rejects (timeout, connection error, non-2xx status) or
\* resolves with the parsed body in response.data
Rejected == [status |-> "rejected"]

Resolved(d) == [status |-> "resolved", data |-> d]

AccountResponses == {Rejected} \cup {Resolved(d) : d \in {AccountA, AccountB, ErrorPayload, JsNull}}

StatsResponses == {Rejected} \cup {Resolved(d) : d \in {StatsA, ErrorPayload}}

GuildResponses == {Rejected} \cup {Resolved(d) : d \in {GuildA, ErrorPayload, JsNull}}

\* response.data.error is truthy
HasError(data) == Has(data, "error") /\ data["error"] = TRUE

(***************************************************************************)
(* The cache store: searchCache is a Map from key to {data, timestamp}.    *)
(***************************************************************************)
MapSet(map, key, value) == [k \in DOMAIN map \cup {key} |-> IF k = key THEN value ELSE map[k]]

\* mutant: the comparison reversed
IsFresh_reversed(entry, t) == t - entry.timestamp > CACHE_DURATION

\* mutant: an entry aged exactly CACHE_DURATION still counts as fresh
IsFresh_inclusive(entry, t) == t - entry.timestamp <= CACHE_DURATION

\* Date.now() - cached.timestamp < CACHE_DURATION
IsFresh(entry, t) == t - entry.timestamp < CACHE_DURATION

\* cached && Date.now() - cached.timestamp < CACHE_DURATION
CacheHit(key) == key \in DOMAIN searchCache /\ IsFresh(searchCache[key], now)

\* mutant: the sweep uses the read-time limit
IsExpired_afterTTL(entry, t) == t - entry.timestamp > CACHE_DURATION

\* now - value.timestamp > CACHE_DURATION * 2
IsExpired(entry, t) == t - entry.timestamp > CACHE_DURATION * 2

PlayerKey(uid, region) == "stats-" \o uid \o "-" \o region

\* mutant: guild entries share the prefix of player entries
GuildKey_statsPrefix(guildId, region) == "stats-" \o guildId \o "-" \o region

GuildKey(guildId, region) == "guild-" \o guildId \o "-" \o region

(***************************************************************************)
(* Tasks.  A task is one invocation of a fetch operation; pc is the await  *)
(* at which it is suspended.  found, reqs, sources, result, why and        *)
(* upstreamMessage record what the invocation did, for the properties.     *)
(***************************************************************************)
NoResult == [kind |-> "none"]

Null == [kind |-> "null"]

Value(d) == [kind |-> "value", data |-> d]

Thrown(m) == [kind |-> "thrown", message |-> m]

IdleTask ==
    [pc |-> "idle", op |-> "none", id |-> "", region |-> "", accountData |-> EmptyObj,
     statsData |-> EmptyObj, found |-> "none", reqs |-> 0, sources |-> {}, issued |-> <<>>,
     result |-> NoResult, why |-> "none", upstreamMessage |-> ""]

\* what searchCache.get(key) and the freshness test find
Lookup(key) ==
    IF key \notin DOMAIN searchCache THEN "absent"
    ELSE IF CacheHit(key) THEN "fresh" ELSE "stale"

\* the invocation starts: its arguments are bound, the cache is read, nothing
\* is requested yet
Started(op, id, region, key) ==
    [IdleTask EXCEPT !.op = op, !.id = id, !.region = region, !.found = Lookup(key)]

\* one axios.get against statsSources[src] is issued and awaited at pc
\* mutant: the two requests of fetchPlayerStats are issued together
Requesting_both(t, src, pc) ==
    [t EXCEPT !.pc = pc, !.reqs = @ + 2, !.sources = @ \cup {src},
              !.issued = @ \o <<"account", "stats">>]

Requesting(t, src, pc) ==
    [t EXCEPT !.pc = pc, !.reqs = @ + 1, !.sources = @ \cup {src}, !.issued = Append(@, pc)]

\* the invocation returns the record combined from its two payloads
Returned(t, statsData, combinedData) ==
    [t EXCEPT !.pc = "idle", !.statsData = statsData, !.result = Value(combinedData),
              !.why = "fetched"]

\* the map without key
MapDelete(map, key) == [k \in DOMAIN map \ {key} |-> map[k]]

\* mutant: a lookup that finds the entry stale deletes it
AfterRead_evict(key) ==
    IF Lookup(key) = "stale" THEN MapDelete(searchCache, key) ELSE searchCache

\* searchCache after searchCache.get(key) and the freshness test
AfterRead(key) == searchCache

\* mutant: a failed invocation invalidates the entry of its key
AfterFailure_evict(key) == MapDelete(searchCache, key)

\* searchCache after an invocation for key has ended in a catch block or in
\* the error branch
AfterFailure(key) == searchCache

\* the invocation settles with result r
Settled(t, r, why) ==
    [t EXCEPT !.pc = "idle", !.accountData = EmptyObj, !.result = r, !.why = why]

\* mutant: the catch block rethrows
PlayerCatch_rethrow(t, why, message) ==
    Settled([t EXCEPT !.upstreamMessage = message], Thrown(message), why)

\* mutant: the catch block tries statsSources[1] before it gives up
PlayerCatch_backup(t, why, message) ==
    Settled([t EXCEPT !.upstreamMessage = message, !.reqs = @ + 1, !.sources = @ \cup {1}],
            Null, why)

\* mutant: the catch block issues the account request again, up to three times
PlayerCatch_retry(t, why, message) ==
    IF t.reqs < 3
    THEN [t EXCEPT !.pc = "account", !.reqs = @ + 1, !.issued = Append(@, "account")]
    ELSE Settled([t EXCEPT !.upstreamMessage = message], Null, why)

\* mutant: the catch block falls back to the entry the lookup found stale
PlayerCatch_staleFallback(t, why, message) ==
    Settled([t EXCEPT !.upstreamMessage = message],
            IF t.found = "stale" /\ PlayerKey(t.id, t.region) \in DOMAIN searchCache
            THEN Value(searchCache[PlayerKey(t.id, t.region)].data)
            ELSE Null,
            why)

\* catch (error) { console.error(...); return null; } of fetchPlayerStats
PlayerCatch(t, why, message) ==
    Settled([t EXCEPT !.upstreamMessage = message], Null, why)

\* catch (error) { console.error(...); return null; } of fetchGuildInfo
GuildCatch(t, why) == Settled(t, Null, why)

\* mutant: the guild payload is passed through the normaliser
GuildData_normalized(data) == combinePlayerData(data, EmptyObj, "", "")

\* what fetchGuildInfo stores and returns on success: response.data
GuildData(data) == data

\* lastDone: per player key, what the latest fetchPlayerStats invocation that
\* went upstream returned, and when it returned.  lastWrite: per player key
\* in the cache, the two payloads received by the invocation that wrote the
\* entry last
Note(key, r) == MapSet(lastDone, key, [ret |-> r, at |-> now])

\* invocations are interchangeable: a new one takes the lowest slot that
\* holds no invocation in flight
IsFreeSlot(p) ==
    /\ task[p].pc = "idle"
    /\ \A q \in Tasks : task[q].pc = "idle" => p <= q

Init ==
    /\ now = 0
    /\ ticks = 0
    /\ calls = 0
    /\ nextSweep = SWEEP_INTERVAL
    /\ searchCache = EmptyObj
    /\ task = [p \in Tasks |-> IdleTask]
    /\ lastDone = EmptyObj
    /\ lastWrite = EmptyObj
    /\ combineArgs = EmptyObj
    /\ combined = NoResult
    /\ commands = <<>>
    /\ coreCalls = <<>>

\* fetchPlayerStats(uid, region) up to its first await
fetchPlayerStats(p, uid, region) ==
    LET cacheKey == PlayerKey(uid, region)
        t == Started("player", uid, region, cacheKey)
    IN  /\ IsFreeSlot(p)
        /\ calls < MaxCalls
        /\ calls' = calls + 1
        /\ IF CacheHit(cacheKey)
           THEN task' = [task EXCEPT ![p] = Settled(t, Value(searchCache[cacheKey].data), "cache")]
           ELSE task' = [task EXCEPT ![p] = Requesting(t, primarySource, "account")]
        /\ searchCache' = AfterRead(cacheKey)
        /\ UNCHANGED <<now, ticks, nextSweep, lastDone, lastWrite, pureVars>>

\* the account request settles; fetchPlayerStats runs to its second await
accountResponse(p, resp) ==
    LET t == task[p]
        cacheKey == PlayerKey(t.id, t.region)
        caught == IF resp.status = "rejected" THEN PlayerCatch(t, "transport", "")
                  ELSE IF resp.data = JsNull THEN PlayerCatch(t, "exception", "")
                  ELSE PlayerCatch(t, "apperror", resp.data["message"])
    IN  /\ t.pc = "account"
        /\ IF resp.status = "resolved" /\ resp.data # JsNull /\ ~HasError(resp.data)
           THEN /\ task' = [task EXCEPT
                             ![p] = Requesting([t EXCEPT !.accountData = resp.data],
                                               primarySource, "stats")]
                /\ UNCHANGED <<searchCache, lastDone>>
           ELSE /\ task' = [task EXCEPT ![p] = caught]
                /\ searchCache' = AfterFailure(cacheKey)
                /\ lastDone' = Note(cacheKey, caught.result)
        /\ UNCHANGED <<now, ticks, calls, nextSweep, lastWrite, pureVars>>

\* mutant: accountResponse is shared by the invocations instead of local, and
\* holds the payload of another invocation that is awaiting its stats
CombinedFor_shared(p, statsData) ==
    LET others == {q \in Tasks \ {p} : task[q].pc = "stats"}
        q == IF others = {} THEN p ELSE CHOOSE o \in others : TRUE
    IN  combinePlayerData(task[q].accountData, statsData, task[p].id, task[p].region)

\* combinePlayerData(accountResponse.data, statsResponse.data, uid, region) as
\* invocation p calls it: accountResponse, uid and region are its own locals
CombinedFor(p, statsData) ==
    combinePlayerData(task[p].accountData, statsData, task[p].id, task[p].region)

\* the playerStats request settles; fetchPlayerStats runs to its end
statsResponse(p, resp) ==
    LET t == task[p]
        cacheKey == PlayerKey(t.id, t.region)
        caught == PlayerCatch(t, "transport", "")
    IN  /\ t.pc = "stats"
        /\ IF resp.status = "resolved"
           THEN \E combinedData \in {CombinedFor(p, resp.data)} :
                /\ searchCache' = MapSet(searchCache, cacheKey,
                                         [data |-> combinedData, timestamp |-> now])
                /\ task' = [task EXCEPT ![p] = Returned(t, resp.data, combinedData)]
                /\ lastDone' = Note(cacheKey, Value(combinedData))
                /\ lastWrite' = MapSet(lastWrite, cacheKey,
                                       [account |-> t.accountData, stats |-> resp.data])
           ELSE /\ task' = [task EXCEPT ![p] = caught]
                /\ searchCache' = AfterFailure(cacheKey)
                /\ lastDone' = Note(cacheKey, caught.result)
                /\ UNCHANGED lastWrite
        /\ UNCHANGED <<now, ticks, calls, nextSweep, pureVars>>

\* fetchGuildInfo(guildId, region) up to its await
fetchGuildInfo(p, guildId, region) ==
    LET cacheKey == GuildKey(guildId, region)
        t == Started("guild", guildId, region, cacheKey)
    IN  /\ IsFreeSlot(p)
        /\ calls < MaxCalls
        /\ calls' = calls + 1
        /\ IF CacheHit(cacheKey)
           THEN task' = [task EXCEPT ![p] = Settled(t, Value(searchCache[cacheKey].data), "cache")]
           ELSE task' = [task EXCEPT ![p] = Requesting(t, primarySource, "guild")]
        /\ searchCache' = AfterRead(cacheKey)
        /\ UNCHANGED <<now, ticks, nextSweep, lastDone, lastWrite, pureVars>>

\* the guildInfo request settles; fetchGuildInfo runs to its end
guildResponse(p, resp) ==
    LET t == task[p]
        cacheKey == GuildKey(t.id, t.region)
        absent == IF resp.status = "rejected" THEN GuildCatch(t, "transport")
                  ELSE IF resp.data = JsNull THEN GuildCatch(t, "exception")
                  ELSE Settled(t, Null, "apperror")
    IN  /\ t.pc = "guild"
        /\ IF resp.status = "resolved" /\ resp.data # JsNull /\ ~HasError(resp.data)
           THEN /\ searchCache' = MapSet(searchCache, cacheKey,
                                         [data |-> GuildData(resp.data), timestamp |-> now])
                /\ task' = [task EXCEPT ![p] = Settled(t, Value(GuildData(resp.data)), "fetched")]
           ELSE /\ task' = [task EXCEPT ![p] = absent]
                /\ searchCache' = AfterFailure(cacheKey)
        /\ UNCHANGED <<now, ticks, calls, nextSweep, lastDone, lastWrite, pureVars>>

\* the setInterval callback: one pass over the entries
sweep ==
    /\ now >= nextSweep
    /\ searchCache' = [k \in {j \in DOMAIN searchCache : ~IsExpired(searchCache[j], now)}
                         |-> searchCache[k]]
    /\ lastWrite' = [k \in DOMAIN lastWrite \cap DOMAIN searchCache' |-> lastWrite[k]]
    /\ nextSweep' = now + SWEEP_INTERVAL
    /\ UNCHANGED <<now, ticks, calls, task, lastDone, pureVars>>

\* the wall clock advances; the invocations that have returned are over (their
\* record is kept only up to the next advance of the clock), those in flight
\* stay suspended
tick(d) ==
    /\ ticks < MaxTicks
    /\ now' = now + d
    /\ ticks' = ticks + 1
    /\ task' = [p \in Tasks |-> IF task[p].pc = "idle" THEN IdleTask ELSE task[p]]
    /\ UNCHANGED <<calls, nextSweep, searchCache, lastDone, lastWrite, pureVars>>

Next ==
    \/ \E p \in Tasks, uid \in Uids, region \in Regions : fetchPlayerStats(p, uid, region)
    \/ \E p \in Tasks, resp \in AccountResponses : accountResponse(p, resp)
    \/ \E p \in Tasks, resp \in StatsResponses : statsResponse(p, resp)
    \/ \E p \in Tasks, guildId \in GuildIds, region \in Regions : fetchGuildInfo(p, guildId, region)
    \/ \E p \in Tasks, resp \in GuildResponses : guildResponse(p, resp)
    \/ sweep
    \/ \E d \in Deltas : tick(d)

Spec == Init /\ [][Next]_vars

\* every request carries timeout: 10000, so each pending axios.get settles:
\* the continuation of an invocation that awaits one is eventually run
Responds(p) ==
    /\ WF_vars(\E resp \in AccountResponses : accountResponse(p, resp))
    /\ WF_vars(\E resp \in StatsResponses : statsResponse(p, resp))
    /\ WF_vars(\E resp \in GuildResponses : guildResponse(p, resp))

\* the steps of Next with the clock advancing by whole cache lifetimes
NextLive ==
    \/ \E p \in Tasks, uid \in Uids, region \in Regions : fetchPlayerStats(p, uid, region)
    \/ \E p \in Tasks, resp \in AccountResponses : accountResponse(p, resp)
    \/ \E p \in Tasks, resp \in StatsResponses : statsResponse(p, resp)
    \/ \E p \in Tasks, guildId \in GuildIds, region \in Regions : fetchGuildInfo(p, guildId, region)
    \/ \E p \in Tasks, resp \in GuildResponses : guildResponse(p, resp)
    \/ sweep
    \/ tick(CACHE_DURATION)

SpecLive == Init /\ [][NextLive]_vars /\ \A p \in Tasks : Responds(p)

(***************************************************************************)
(* combinePlayerData in isolation: the arguments are drawn from the        *)
(* payload families below and the function is applied once.                *)
(***************************************************************************)
RankCodes == (-1..1) \cup (209..222) \cup {999}

QuadVariants ==
    {EmptyObj,
     [gamesPlayed |-> MaxStat, wins |-> 0, kills |-> 0, detailedStats |-> [deaths |-> MaxStat]]}

RankAccounts ==
    {EmptyObj, [basicInfo |-> EmptyObj]} \cup {[basicInfo |-> [rank |-> c]] : c \in RankCodes}

WinStats ==
    {[soloStats |-> [gamesPlayed |-> m, wins |-> w], quadStats |-> q] :
        m \in 0..MaxStat, w \in 0..MaxStat, q \in QuadVariants}

KillStats ==
    {[soloStats |-> [kills |-> k, detailedStats |-> [deaths |-> d]], quadStats |-> q] :
        k \in 0..MaxStat, d \in 0..MaxStat, q \in QuadVariants}

\* payloads whose numbers are below zero: nothing in the program rules them out
NegativeAccount ==
    [basicInfo |-> [nickname |-> "Gamma", level |-> -1, liked |-> -2, rankingPoints |-> -3,
                    badgeCnt |-> -4]]

NegativeStats ==
    [soloStats |-> [gamesPlayed |-> -1, wins |-> -1, kills |-> -1,
                    detailedStats |-> [headshots |-> -1, damage |-> -1]]]

CombineInputs ==
    {[accountData |-> a, statsData |-> st, uid |-> "1", region |-> "IND"] :
        a \in RankAccounts, st \in {EmptyObj}}
    \cup {[accountData |-> a, statsData |-> st, uid |-> "1", region |-> "IND"] :
            a \in {AccountB, NegativeAccount}, st \in {EmptyObj, NegativeStats}}
    \cup {[accountData |-> a, statsData |-> st, uid |-> "1", region |-> "IND"] :
            a \in {AccountB}, st \in WinStats \cup KillStats}

InitCombine ==
    /\ now = 0
    /\ ticks = 0
    /\ calls = 0
    /\ nextSweep = SWEEP_INTERVAL
    /\ searchCache = EmptyObj
    /\ task = [p \in Tasks |-> IdleTask]
    /\ lastDone = EmptyObj
    /\ lastWrite = EmptyObj
    /\ combineArgs \in CombineInputs
    /\ combined = NoResult
    /\ commands = <<>>
    /\ coreCalls = <<>>

\* one call combinePlayerData(accountData, statsData, uid, region)
combine ==
    /\ combined = NoResult
    /\ combined' = Value(combinePlayerData(combineArgs.accountData, combineArgs.statsData,
                                           combineArgs.uid, combineArgs.region))
    /\ UNCHANGED <<now, ticks, calls, nextSweep, searchCache, task, lastDone, lastWrite,
                   combineArgs, commands, coreCalls>>

NextCombine == combine

SpecCombine == InitCombine /\ [][NextCombine]_vars

(***************************************************************************)
(* The chat command surface: the /stats and /guild handlers up to their    *)
(* core call.  A command is its kind and the whitespace-separated words    *)
(* that follow the command name; a word is a sequence of characters.       *)
(***************************************************************************)
DigitChars == {"0", "1", "2", "3", "4", "5", "6", "7", "8", "9"}

UpperChars ==
    {"A", "B", "C", "D", "E", "F", "G", "H", "I", "J", "K", "L", "M",
     "N", "O", "P", "Q", "R", "S", "T", "U", "V", "W", "X", "Y", "Z"}

Chars == DigitChars \cup UpperChars \cup {"a", "d", "i", "n"}

\* the text of a word
JoinChars[w \in Seq(Chars)] == IF w = <<>> THEN "" ELSE w[1] \o JoinChars[Tail(w)]

\* the length of the longest prefix of word w made of characters of set S
PrefixLen(w, S) ==
    CHOOSE n \in 0..Len(w) :
        /\ \A i \in 1..n : w[i] \in S
        /\ n = Len(w) \/ w[n + 1] \notin S

\* /\/stats(?:\s+(\d+))?(?:\s+([A-Z]{2,3}))?/ applied to the words: match[1]
\* is the digits the first word starts with; "" stands for undefined
MatchId(words) ==
    IF words = <<>> THEN ""
    ELSE JoinChars[SubSeq(words[1], 1, PrefixLen(words[1], DigitChars))]

\* the word the second group is tried on: the one after the digits when the
\* first word is all digits, the first word when it has no leading digit, and
\* none when the digits are followed by something else than white space
RegionWord(words) ==
    IF words = <<>> THEN <<>>
    ELSE LET n == PrefixLen(words[1], DigitChars)
         IN  IF n = 0 THEN words[1]
             ELSE IF n = Len(words[1]) /\ Len(words) >= 2 THEN words[2]
             ELSE <<>>

\* match[2]: the first two or three capital letters of that word
MatchRegion(words) ==
    LET w == RegionWord(words)
        n == PrefixLen(w, UpperChars)
    IN  IF n < 2 THEN "" ELSE JoinChars[SubSeq(w, 1, IF n > 3 THEN 3 ELSE n)]

\* match[2] || 'IND'
RegionOrDefault(words) == IF MatchRegion(words) = "" THEN "IND" ELSE MatchRegion(words)

validRegions ==
    {"IND", "BR", "SG", "RU", "ID", "TW", "US", "VN", "TH", "ME", "PK", "CIS", "BD"}

\* what a handler did: the reply it sent without a core call, or the core call
NoCall(reply) == [reply |-> reply, fn |-> "none", id |-> "", region |-> "", key |-> ""]

CoreCall(fn, id, region, key) ==
    [reply |-> "loading", fn |-> fn, id |-> id, region |-> region, key |-> key]

\* the /stats handler down to its call of fetchPlayerStats
StatsHandler(words) ==
    LET uid == MatchId(words)
        region == RegionOrDefault(words)
    IN  IF uid = "" THEN NoCall("Invalid Format")
        ELSE IF region \notin validRegions THEN NoCall("Invalid Region")
        ELSE CoreCall("fetchPlayerStats", uid, region, PlayerKey(uid, region))

\* the /guild handler down to its call of fetchGuildInfo
GuildHandler(words) ==
    LET guildId == MatchId(words)
        region == RegionOrDefault(words)
    IN  IF guildId = "" THEN NoCall("Invalid Format")
        ELSE CoreCall("fetchGuildInfo", guildId, region, GuildKey(guildId, region))

IdWords == {<<"1">>, <<"1", "2">>, <<"1", "a">>}

RegionWords ==
    {<<"I", "N", "D">>, <<"B", "R">>, <<"S", "G">>, <<"R", "U">>, <<"I", "D">>, <<"T", "W">>,
     <<"U", "S">>, <<"V", "N">>, <<"T", "H">>, <<"M", "E">>, <<"P", "K">>, <<"C", "I", "S">>,
     <<"B", "D">>,
     <<"X", "X">>, <<"Z", "Z", "Z">>, <<"B">>, <<"i", "n", "d">>, <<"I", "N", "D", "I", "A">>}

WordLists ==
    {<<>>} \cup {<<w>> : w \in IdWords \cup RegionWords}
           \cup {<<w, r>> : w \in IdWords, r \in RegionWords}

Commands == [kind : {"stats", "guild"}, words : WordLists]

InitCommand ==
    /\ now = 0
    /\ ticks = 0
    /\ calls = 0
    /\ nextSweep = SWEEP_INTERVAL
    /\ searchCache = EmptyObj
    /\ task = [p \in Tasks |-> IdleTask]
    /\ lastDone = EmptyObj
    /\ lastWrite = EmptyObj
    /\ combineArgs = EmptyObj
    /\ combined = NoResult
    /\ commands \in Commands \X Commands
    /\ coreCalls = <<>>

\* the next command received
NextCommand == commands[Len(coreCalls) + 1]

\* bot.onText(/\/stats.../) runs its handler on the next command
statsCommand ==
    /\ Len(coreCalls) < Len(commands)
    /\ NextCommand.kind = "stats"
    /\ coreCalls' = Append(coreCalls, StatsHandler(NextCommand.words))
    /\ UNCHANGED <<now, ticks, calls, nextSweep, searchCache, task, lastDone, lastWrite,
                   combineArgs, combined, commands>>

\* bot.onText(/\/guild.../) runs its handler on the next command
guildCommand ==
    /\ Len(coreCalls) < Len(commands)
    /\ NextCommand.kind = "guild"
    /\ coreCalls' = Append(coreCalls, GuildHandler(NextCommand.words))
    /\ UNCHANGED <<now, ticks, calls, nextSweep, searchCache, task, lastDone, lastWrite,
                   combineArgs, combined, commands>>

NextCommandStep == statsCommand \/ guildCommand

SpecCommand == InitCommand /\ [][NextCommandStep]_vars

(***************************************************************************)
(* Properties of the two fetch functions and of the cache (checked under   *)
(* Spec).                                                                  *)
(***************************************************************************)
\* the outcomes of a fetchPlayerStats invocation that end in its catch block
Failures == {"transport", "exception", "apperror"}

\* invocation p is served from the cache entry under key and requests nothing
ServedFrom(p, key) ==
    /\ task'[p].pc = "idle"
    /\ task'[p].reqs = 0
    /\ task'[p].result = Value(searchCache[key].data)

\* invocation p has gone upstream with exactly one request so far
WentUpstream(p) ==
    /\ task'[p].pc # "idle"
    /\ task'[p].reqs = 1

\* C1 (as stated): a second fetchPlayerStats call for the same pair, made
\* within CACHE_DURATION of the first call's return, returns what the first
\* call returned and issues zero upstream requests.
C1_AnyFirstReturn ==
    [][\A p \in Tasks, uid \in Uids, region \in Regions :
         LET key == PlayerKey(uid, region) IN
         (/\ fetchPlayerStats(p, uid, region)
          /\ key \in DOMAIN lastDone
          /\ now - lastDone[key].at <= CACHE_DURATION)
         => (/\ task'[p].pc = "idle"
             /\ task'[p].result = lastDone[key].ret
             /\ task'[p].reqs = 0)]_vars

\* C1 (amended): when the latest fetchPlayerStats invocation for a pair that
\* went upstream returned a record, a call for the same pair made less than
\* CACHE_DURATION after that return gets an equal record and issues zero
\* upstream requests.
C1_SecondCallServed ==
    [][\A p \in Tasks, uid \in Uids, region \in Regions :
         LET key == PlayerKey(uid, region) IN
         (/\ fetchPlayerStats(p, uid, region)
          /\ key \in DOMAIN lastDone
          /\ lastDone[key].ret.kind = "value"
          /\ now - lastDone[key].at < CACHE_DURATION)
         => (/\ task'[p].pc = "idle"
             /\ task'[p].result = lastDone[key].ret
             /\ task'[p].reqs = 0)]_vars

\* a call was served from the cache after an earlier one had fetched the record
C1_Witness ==
    \E p \in Tasks :
        LET key == PlayerKey(task[p].id, task[p].region) IN
        /\ task[p].op = "player"
        /\ task[p].why = "cache"
        /\ task[p].reqs = 0
        /\ key \in DOMAIN lastDone
        /\ lastDone[key].ret.kind = "value"
        /\ task[p].result = lastDone[key].ret
        /\ now > lastDone[key].at
        /\ now - lastDone[key].at < CACHE_DURATION

\* C2 (as stated): when the account response carries a truthy error field,
\* fetchPlayerStats throws an Error whose message is the upstream message.
C2_ErrorPayloadThrows ==
    \A p \in Tasks :
        (task[p].op = "player" /\ task[p].why = "apperror")
        => task[p].result = Thrown(task[p].upstreamMessage)

C4_ServedAtTTL ==
    [][\A p \in Tasks, region \in Regions :
         /\ \A uid \in Uids :
              LET key == PlayerKey(uid, region) IN
              (/\ fetchPlayerStats(p, uid, region)
               /\ key \in DOMAIN searchCache
               /\ now - searchCache[key].timestamp <= CACHE_DURATION)
              => ServedFrom(p, key)
         /\ \A guildId \in GuildIds :
              LET key == GuildKey(guildId, region) IN
              (/\ fetchGuildInfo(p, guildId, region)
               /\ key \in DOMAIN searchCache
               /\ now - searchCache[key].timestamp <= CACHE_DURATION)
              => ServedFrom(p, key)]_vars

\* C4 (amended): both fetch functions serve an entry exactly while its age is
\* below CACHE_DURATION; from age CACHE_DURATION on the call is a miss and
\* goes upstream.
C4_ServedBelowTTL ==
    [][\A p \in Tasks, region \in Regions :
         /\ \A uid \in Uids :
              LET key == PlayerKey(uid, region) IN
              (fetchPlayerStats(p, uid, region) /\ key \in DOMAIN searchCache)
              => IF now - searchCache[key].timestamp < CACHE_DURATION
                 THEN ServedFrom(p, key) ELSE WentUpstream(p)
         /\ \A guildId \in GuildIds :
              LET key == GuildKey(guildId, region) IN
              (fetchGuildInfo(p, guildId, region) /\ key \in DOMAIN searchCache)
              => IF now - searchCache[key].timestamp < CACHE_DURATION
                 THEN ServedFrom(p, key) ELSE WentUpstream(p)]_vars

\* the key of invocation p
KeyOf(p) ==
    IF task[p].op = "guild" THEN GuildKey(task[p].id, task[p].region)
    ELSE PlayerKey(task[p].id, task[p].region)

\* the only invocation since the entry was written found it aged exactly
\* CACHE_DURATION, took it for stale and is awaiting its upstream request
C4_Witness ==
    \E p \in Tasks :
        /\ task[p].pc \in {"account", "guild"}
        /\ task[p].found = "stale"
        /\ calls = 2
        /\ KeyOf(p) \in DOMAIN searchCache
        /\ now - searchCache[KeyOf(p)].timestamp = CACHE_DURATION

\* C5: one pass of the sweep removes exactly the entries older than twice
\* CACHE_DURATION and leaves the others as they are; an entry whose age lies
\* between CACHE_DURATION and twice CACHE_DURATION stays in the map after the
\* pass although a lookup treats it as a miss.
C5_SweepAtTwiceTTL ==
    [][sweep =>
         /\ DOMAIN searchCache' \subseteq DOMAIN searchCache
         /\ \A key \in DOMAIN searchCache :
              IF now - searchCache[key].timestamp > 2 * CACHE_DURATION
              THEN key \notin DOMAIN searchCache'
              ELSE /\ key \in DOMAIN searchCache'
                   /\ searchCache'[key] = searchCache[key]
                   /\ now - searchCache[key].timestamp > CACHE_DURATION
                      => Lookup(key)' = "stale"]_vars

\* the time of the latest sweep pass
LastSweepAt == nextSweep - SWEEP_INTERVAL

\* an entry that was CACHE_DURATION + 1 s old at the latest sweep pass is
\* still in the map, and a lookup takes it for stale
C5_Witness ==
    /\ nextSweep > SWEEP_INTERVAL
    /\ \E key \in DOMAIN searchCache :
         /\ LastSweepAt - searchCache[key].timestamp = CACHE_DURATION + 1000
         /\ Lookup(key) = "stale"

\* C6: on a miss fetchGuildInfo issues exactly one guildInfo request; when
\* the request fails, or its body carries a truthy error field, it returns
\* null and caches nothing; otherwise it caches and returns response.data
\* itself, not passed through combinePlayerData.
C6_GuildOutcomes ==
    [][\A p \in Tasks, resp \in GuildResponses :
         guildResponse(p, resp) =>
           /\ task'[p].pc = "idle"
           /\ task'[p].reqs = 1
           /\ IF resp.status = "rejected" \/ resp.data = JsNull \/ HasError(resp.data)
              THEN /\ task'[p].result = Null
                   /\ searchCache' = searchCache
              ELSE /\ task'[p].result = Value(resp.data)
                   /\ searchCache' = MapSet(searchCache, GuildKey(task[p].id, task[p].region),
                                            [data |-> resp.data, timestamp |-> now])]_vars

\* a guild payload was fetched, cached as it came and returned
C6_Witness ==
    \E p \in Tasks :
        /\ task[p].op = "guild"
        /\ task[p].why = "fetched"
        /\ task[p].reqs = 1
        /\ task[p].result = Value(GuildA)
        /\ KeyOf(p) \in DOMAIN searchCache
        /\ searchCache[KeyOf(p)].data = GuildA

\* C7: concurrent fetchPlayerStats calls for one pair are not coalesced: each
\* invocation past the cache check has issued its own requests, and every
\* player entry in the cache is the record combined from the two payloads of
\* the one invocation that wrote it last.
C7_WholeEntries ==
    /\ \A p \in Tasks :
         task[p].pc = "account" => task[p].reqs = 1
    /\ \A p \in Tasks :
         task[p].pc = "stats" => task[p].reqs = 2
    /\ \A uid \in Uids, region \in Regions :
         LET key == PlayerKey(uid, region) IN
         key \in DOMAIN searchCache
         => /\ key \in DOMAIN lastWrite
            /\ searchCache[key].data =
                 combinePlayerData(lastWrite[key].account, lastWrite[key].stats, uid, region)

\* two calls for one pair both missed at the same instant, fetched different
\* payloads with two requests each, and the entry is the later writer's record
C7_Witness ==
    /\ ticks = 0
    /\ \A p \in Tasks :
         /\ task[p].op = "player"
         /\ task[p].why = "fetched"
         /\ task[p].found = "absent"
         /\ task[p].reqs = 2
    /\ task[1].id = task[2].id
    /\ task[1].region = task[2].region
    /\ task[1].result # task[2].result
    /\ KeyOf(1) \in DOMAIN searchCache
    /\ Value(searchCache[KeyOf(1)].data) \in {task[1].result, task[2].result}

ArgDeaths ==
    DetailOrZero(ObjOrEmpty(combineArgs.statsData, "soloStats"), "deaths")
      + DetailOrZero(ObjOrEmpty(combineArgs.statsData, "quadStats"), "deaths")

\* the decimal numeral of n / 10 with exactly one fraction digit
OneDecimal(n) == NatToString[n \div 10] \o "." \o Digit(n % 10)

\* the decimal numeral of n / 100 with exactly two fraction digits
TwoDecimals(n) == NatToString[n \div 100] \o "." \o Digit((n \div 10) % 10) \o Digit(n % 10)

\* n is an integer nearest to a / b (one of the two when a / b lies half way)
IsNearest(n, a, b) == 2 * Abs(a - n * b) <= b

\* a / b rounded to the nearest integer, half way cases upwards
RoundHalfUp(a, b) == (2 * a + b) \div (2 * b)

\* C9 (as amended): winRate has exactly one fraction digit and is a one-decimal
\* value nearest to 100 * totalWins / totalMatches when totalMatches > 0, and
\* "0.0" when totalMatches = 0; kdRatio has exactly two fraction digits and is a
\* two-decimal value nearest to totalKills / totalDeaths when totalDeaths > 0,
\* and the bare integer numeral of totalKills when totalDeaths = 0.  When the
\* exact quotient lies half way between two values either may be produced.
C9_RatioFormats ==
    combined # NoResult =>
        LET r == combined.data
            d == ArgDeaths
        IN  /\ r.totalMatches > 0 =>
                \E n \in {(1000 * r.totalWins) \div r.totalMatches,
                          (1000 * r.totalWins) \div r.totalMatches + 1} :
                    /\ r.winRate = OneDecimal(n)
                    /\ IsNearest(n, 1000 * r.totalWins, r.totalMatches)
            /\ r.totalMatches = 0 => r.winRate = "0.0"
            /\ d > 0 =>
                \E n \in {(100 * r.totalKills) \div d, (100 * r.totalKills) \div d + 1} :
                    /\ r.kdRatio = TwoDecimals(n)
                    /\ IsNearest(n, 100 * r.totalKills, d)
            /\ d = 0 => r.kdRatio = IntToString(r.totalKills)

\* C9 witness: 3 kills over 40 deaths, a half-way quotient (0.075), came out as "0.07"
C9_Witness ==
    /\ combined # NoResult
    /\ combined.data.totalKills = 3
    /\ ArgDeaths = 40
    /\ combined.data.kdRatio = "0.07"

\* C9 as stated: winRate equals 100 * totalWins / totalMatches rounded to one
\* decimal and kdRatio equals totalKills / totalDeaths rounded to two decimals
\* (half way cases rounded upwards, as toFixed does on the value it is given;
\* rounding them to even gives the same numerals at 3 / 40 and at 23 / 80)
C9_ExactRounding ==
    combined # NoResult =>
        LET r == combined.data
            d == ArgDeaths
        IN  /\ r.totalMatches > 0 =>
                r.winRate = OneDecimal(RoundHalfUp(1000 * r.totalWins, r.totalMatches))
            /\ r.totalMatches = 0 => r.winRate = "0.0"
            /\ d > 0 => r.kdRatio = TwoDecimals(RoundHalfUp(100 * r.totalKills, d))
            /\ d = 0 => r.kdRatio = IntToString(r.totalKills)

\* the ten tier names, from code 211 to code 220
TierNames ==
    <<"Gold III", "Gold II", "Gold I", "Platinum III", "Platinum II", "Platinum I",
      "Diamond III", "Diamond II", "Diamond I", "Grandmaster">>

\* the rank code of the call's account payload is present
ArgHasRank ==
    /\ Has(combineArgs.accountData, "basicInfo")
    /\ Has(combineArgs.accountData["basicInfo"], "rank")

ArgRank == combineArgs.accountData["basicInfo"]["rank"]

\* C10 (as amended): the rank label is the tier name for the codes 211..220,
\* "Rank <code>" for every other code that is present and not 0, and
\* "Rank Unknown" when the code is absent or 0.
C10_RankLabel ==
    combined # NoResult =>
        LET label == combined.data.rank
        IN  IF ArgHasRank /\ ArgRank \in 211..220 THEN label = TierNames[ArgRank - 210]
            ELSE IF ArgHasRank /\ ArgRank # 0 THEN label = "Rank " \o IntToString(ArgRank)
            ELSE label = "Rank Unknown"

\* C10 witness: the code 0 is present and was labelled "Rank Unknown"
C10_Witness ==
    /\ combined # NoResult
    /\ ArgHasRank
    /\ ArgRank = 0
    /\ combined.data.rank = "Rank Unknown"

\* C10 as stated: every present code outside the table, 0 included, is labelled
\* "Rank <code>", and "Rank Unknown" is produced only when the code is absent
C10_EveryCode ==
    combined # NoResult =>
        LET label == combined.data.rank
        IN  IF ArgHasRank /\ ArgRank \in 211..220 THEN label = TierNames[ArgRank - 210]
            ELSE IF ArgHasRank THEN label = "Rank " \o IntToString(ArgRank)
            ELSE label = "Rank Unknown"

Unanswered(t) ==
    IF t.pc = "idle" THEN <<>>
    ELSE IF t.pc = "stats" THEN Tail(t.issued)
    ELSE t.issued

\* the account request of invocation p came back with a usable body
AccountOk(resp) ==
    resp.status = "resolved" /\ resp.data # JsNull /\ ~HasError(resp.data)

\* C14: fetchPlayerStats issues the account request alone; the playerStats
\* request is issued only when the account request has come back without a
\* failure or an error field, and is not issued at all otherwise; the two are
\* never in flight together.
C14_AccountThenStats ==
    [][\A p \in Tasks :
         /\ (task[p].op = "player" \/ task'[p].op = "player")
            => Len(Unanswered(task'[p])) <= 1
         /\ \A uid \in Uids, region \in Regions :
              (fetchPlayerStats(p, uid, region) /\ task'[p].pc # "idle")
              => task'[p].issued = <<"account">>
         /\ \A resp \in AccountResponses :
              (task[p].pc = "account" /\ task'[p] # task[p] /\ accountResponse(p, resp))
              => IF AccountOk(resp)
                 THEN task'[p].pc = "stats" /\ task'[p].issued = <<"account", "stats">>
                 ELSE /\ task'[p].pc = "idle"
                      /\ task'[p].result = Null
                      /\ task'[p].issued = <<"account">>
         /\ (task[p].pc = "stats" /\ task'[p] # task[p])
            => task'[p].pc = "idle" /\ task'[p].issued = <<"account", "stats">>]_vars

\* the playerStats request is in flight after the account request came back
\* with a usable body
C14_Witness ==
    \E p \in Tasks :
        /\ task[p].pc = "stats"
        /\ task[p].issued = <<"account", "stats">>
        /\ Unanswered(task[p]) = <<"stats">>
        /\ task[p].accountData = AccountA

\* invocation p ends in this step
Settles(p) == task'[p] # task[p] /\ task'[p].pc = "idle" /\ task'[p].result # NoResult

\* C15: an invocation that found a stale entry and whose upstream fetch then
\* failed returns null, not the stale value; a value returned from the cache
\* is the stored value of an entry that is fresh at the time of the read.
C15_NoStaleServe ==
    [][\A p \in Tasks :
         Settles(p) =>
           /\ task'[p].why = "cache" =>
                /\ task'[p].found = "fresh"
                /\ KeyOf(p)' \in DOMAIN searchCache
                /\ IsFresh(searchCache[KeyOf(p)'], now)
                /\ task'[p].result = Value(searchCache[KeyOf(p)'].data)
           /\ (task'[p].found = "stale" /\ task'[p].why \in Failures) =>
                task'[p].result = Null]_vars

\* an invocation found a stale entry, failed upstream and returned null while
\* the stale entry was still in the store
C15_Witness ==
    \E p \in Tasks :
        /\ task[p].pc = "idle"
        /\ task[p].found = "stale"
        /\ task[p].why \in Failures
        /\ task[p].result = Null
        /\ KeyOf(p) \in DOMAIN searchCache
        /\ Lookup(KeyOf(p)) = "stale"

\* C16: a lookup never removes an entry.  Only the sweep takes a key out of
\* the store, and it takes only expired ones; the first step of a fetch
\* leaves the store as it is; an entry changes only when an invocation for
\* its key returns what it fetched.
C16_OnlySweepDeletes ==
    [][/\ \A key \in DOMAIN searchCache :
            key \notin DOMAIN searchCache' => sweep /\ IsExpired(searchCache[key], now)
       /\ \A p \in Tasks, region \in Regions :
            ((\E uid \in Uids : fetchPlayerStats(p, uid, region))
             \/ (\E guildId \in GuildIds : fetchGuildInfo(p, guildId, region)))
            => searchCache' = searchCache
       /\ \A key \in DOMAIN searchCache \cap DOMAIN searchCache' :
            searchCache'[key] # searchCache[key]
            => \E p \in Tasks :
                 /\ Settles(p)
                 /\ KeyOf(p) = key
                 /\ task'[p].why = "fetched"
                 /\ searchCache'[key].data = task'[p].result.data]_vars

\* an invocation found the entry of its key stale and is awaiting its
\* upstream request, and the entry is still in the store
C16_Witness ==
    \E p \in Tasks :
        /\ task[p].pc # "idle"
        /\ task[p].found = "stale"
        /\ KeyOf(p) \in DOMAIN searchCache
        /\ Lookup(KeyOf(p)) = "stale"

\* C17: an invocation that ends in null leaves the whole store unchanged.
C17_FailureKeepsCache ==
    [][\A p \in Tasks :
         (Settles(p) /\ task'[p].result = Null) => searchCache' = searchCache]_vars

\* an invocation that found no entry failed after a concurrent invocation
\* for the same key had written one, and that entry is in the store as written
C17_Witness ==
    \E p, q \in Tasks :
        /\ p # q
        /\ task[p].op = "player" /\ task[q].op = "player"
        /\ KeyOf(p) = KeyOf(q)
        /\ task[p].found = "absent" /\ task[p].why \in Failures /\ task[p].result = Null
        /\ task[q].why = "fetched"
        /\ KeyOf(p) \in DOMAIN lastDone
        /\ lastDone[KeyOf(p)].ret = Null
        /\ KeyOf(p) \in DOMAIN searchCache
        /\ Value(searchCache[KeyOf(p)].data) = task[q].result

\* C20 (as stated): every cache entry holds a non-null value produced by a
\* fetch whose upstream responses all came without an application-level
\* error.
C20_NoErrorCached ==
    /\ \A uid \in Uids, region \in Regions :
         LET key == PlayerKey(uid, region) IN
         key \in DOMAIN searchCache
         => /\ searchCache[key].data # JsNull
            /\ key \in DOMAIN lastWrite
            /\ ~HasError(lastWrite[key].account)
            /\ ~HasError(lastWrite[key].stats)
    /\ \A guildId \in GuildIds, region \in Regions :
         LET key == GuildKey(guildId, region) IN
         key \in DOMAIN searchCache
         => /\ searchCache[key].data # JsNull
            /\ ~HasError(searchCache[key].data)

(***************************************************************************)
(* Termination of the fetch functions (checked under SpecLive).            *)
(***************************************************************************)
\* the requests an invocation may have issued, in order
RequestPlans == {<<>>, <<"account">>, <<"account", "stats">>, <<"guild">>}

\* C18: every invocation of fetchPlayerStats or fetchGuildInfo eventually
\* returns a value or null, having issued at most two requests (player) or one
\* (guild), each endpoint at most once: a failed request is not retried.
C18_Resolves ==
    /\ [](\A p \in Tasks :
            /\ task[p].issued \in RequestPlans
            /\ task[p].reqs = Len(task[p].issued)
            /\ task[p].op = "guild" => task[p].reqs <= 1)
    /\ \A p \in Tasks :
         (task[p].pc # "idle")
         ~> (task[p].pc = "idle" /\ task[p].result.kind \in {"value", "null"})

\* the playerStats request of an invocation failed and the invocation ended
\* in null with its two requests issued once each
C18_Witness ==
    \E p \in Tasks :
        /\ task[p].pc = "idle"
        /\ task[p].op = "player"
        /\ task[p].issued = <<"account", "stats">>
        /\ task[p].why = "transport"
        /\ task[p].result = Null

(***************************************************************************)
(* Properties of the command surface and of the cache keys (checked under  *)
(* SpecCommand).                                                           *)
(***************************************************************************)
\* the core calls made so far
MadeCalls == {i \in DOMAIN coreCalls : coreCalls[i].fn # "none"}

\* C12: two core calls use the same cache key exactly when they are calls of
\* the same function with the same identifier and the same region.
C12_KeyInjective ==
    \A i, j \in MadeCalls :
        coreCalls[i].key = coreCalls[j].key
        <=> /\ coreCalls[i].fn = coreCalls[j].fn
            /\ coreCalls[i].id = coreCalls[j].id
            /\ coreCalls[i].region = coreCalls[j].region

\* a player call and a guild call for the same identifier and region, and so
\* two different keys
C12_Witness ==
    /\ Len(coreCalls) = 2
    /\ coreCalls[1].fn = "fetchPlayerStats"
    /\ coreCalls[2].fn = "fetchGuildInfo"
    /\ coreCalls[1].id = coreCalls[2].id
    /\ coreCalls[1].region = coreCalls[2].region
    /\ coreCalls[1].key # coreCalls[2].key

\* C19 (as stated): every core call made by a handler passes a region of the
\* accepted set, IND when the command gives none; a command whose region is
\* outside the set leads to no core call.
C19_RegionValidated ==
    \A i \in DOMAIN coreCalls :
        LET given == MatchRegion(commands[i].words) IN
        /\ coreCalls[i].fn # "none" => coreCalls[i].region \in validRegions
        /\ (coreCalls[i].fn # "none" /\ given = "") => coreCalls[i].region = "IND"
        /\ (given # "" /\ given \notin validRegions) => coreCalls[i].fn = "none"

(***************************************************************************)
(* Properties of the normalised record's numbers (checked under            *)
(* SpecCombine).                                                           *)
(***************************************************************************)
NumericFields ==
    {"level", "likes", "rankingPoints", "totalMatches", "totalWins", "totalKills",
     "headshots", "damage", "badgeCount"}

\* C11 (as stated): whatever integers the two payloads carry, every numeric
\* field of the record combinePlayerData returns is non-negative.
C11_NonNegative ==
    combined # NoResult => \A f \in NumericFields : combined.data[f] >= 0

====
